---- MODULE Spec2Model ----
(***************************************************************************)
(* Model of app_flask.py: the report API (Flask + SQLite).                 *)
(*                                                                         *)
(* Values.  A decoded JSON value, a Python value and an SQLite cell are    *)
(* all records [t, n, s]: t is the type tag, n the integer payload and s   *)
(* the text, as a sequence of one-character strings.  Coordinates are      *)
(* whole degrees; a clock reading is a count of half seconds.              *)
(***************************************************************************)
EXTENDS Integers, Sequences, FiniteSets, TLC

VARIABLES cols, rows, seq, inp, norm, resp, issued

vars == <<cols, rows, seq, inp, norm, resp, issued>>

(* ------------------------------ bounds -------------------------------- *)
\* rows the table holds at once, rowids handed out, rows a legacy file
\* brings to a service run, characters of a media type
MaxRows == 3
MaxId == 4
MaxLegacy == 1
MaxMedia == 2

(* ------------------------- program constants -------------------------- *)
LatMin == -90
LatMax == 90
LonMin == -180
LonMax == 180

(* ------------------------------ values -------------------------------- *)
Val(t, n, s) == [t |-> t, n |-> n, s |-> s]

None == Val("null", 0, <<>>)
JInt(i) == Val("int", i, <<>>)
\* an integer literal of more than 308 digits: a Python int no float can hold
JBig == Val("bigint", 0, <<>>)
\* the literals NaN and Infinity, which json.loads accepts
JNaN == Val("nan", 0, <<>>)
JInf == Val("inf", 0, <<>>)
JStr(s) == Val("str", 0, s)
JBool(b) == Val("bool", IF b THEN 1 ELSE 0, <<>>)
\* a JSON array of n nulls
JList(n) == Val("list", n, <<>>)
PyFloatVal(i) == Val("float", i, <<>>)

DigitChars == <<"0", "1", "2", "3", "4", "5", "6", "7", "8", "9">>

IsDigit(c) == \E i \in 1..10 : DigitChars[i] = c

DigitOf(c) == (CHOOSE i \in 1..10 : DigitChars[i] = c) - 1

RECURSIVE NatStr(_)
NatStr(n) ==
    IF n < 10 THEN <<DigitChars[n + 1]>>
    ELSE NatStr(n \div 10) \o <<DigitChars[(n % 10) + 1]>>

IntStr(i) == IF i < 0 THEN <<"-">> \o NatStr(-i) ELSE NatStr(i)

RECURSIVE NoneList(_)
NoneList(n) ==
    IF n = 0 THEN <<>>
    ELSE IF n = 1 THEN <<"N", "o", "n", "e">>
    ELSE <<"N", "o", "n", "e", ",", " ">> \o NoneList(n - 1)

\* str(v) of a Python value (line 130); no case for JBig, which no fecha carries
PyStr(v) ==
    CASE v.t = "str" -> v.s
      [] v.t = "int" -> IntStr(v.n)
      [] v.t = "bool" -> IF v.n = 1 THEN <<"T", "r", "u", "e">>
                         ELSE <<"F", "a", "l", "s", "e">>
      [] v.t = "nan" -> <<"n", "a", "n">>
      [] v.t = "inf" -> <<"i", "n", "f">>
      [] v.t = "null" -> <<"N", "o", "n", "e">>
      [] v.t = "list" -> <<"[">> \o NoneList(v.n) \o <<"]">>

\* Python truthiness, as `not s` reads it (line 76)
Truthy(v) ==
    CASE v.t = "null" -> FALSE
      [] v.t = "str" -> v.s # <<>>
      [] v.t \in {"int", "bool", "list", "float"} -> v.n # 0
      [] OTHER -> TRUE

(* --------------------------- float(x) --------------------------------- *)
Ok(v) == [exc |-> "none", val |-> v]
Raise(e) == [exc |-> e, val |-> None]

RECURSIVE StripLeft(_)
StripLeft(s) == IF s # <<>> /\ Head(s) = " " THEN StripLeft(Tail(s)) ELSE s

RECURSIVE StripRight(_)
StripRight(s) ==
    IF s # <<>> /\ s[Len(s)] = " " THEN StripRight(SubSeq(s, 1, Len(s) - 1)) ELSE s

RECURSIVE DigitsVal(_)
DigitsVal(s) ==
    IF s = <<>> THEN 0 ELSE 10 * DigitsVal(SubSeq(s, 1, Len(s) - 1)) + DigitOf(s[Len(s)])

\* float(str): surrounding blanks, an optional sign, then decimal digits or
\* nan or inf.  Texts with '.', 'e' or '_' are outside the modelled alphabet.
ParseFloat(s) ==
    LET t == StripRight(StripLeft(s))
        signed == t # <<>> /\ Head(t) \in {"-", "+"}
        body == IF signed THEN Tail(t) ELSE t
        neg == signed /\ Head(t) = "-"
    IN  IF body = <<"n", "a", "n">> THEN Ok(JNaN)
        ELSE IF body = <<"i", "n", "f">> THEN Ok(Val(IF neg THEN "-inf" ELSE "inf", 0, <<>>))
        ELSE IF body # <<>> /\ \A i \in 1..Len(body) : IsDigit(body[i])
             THEN Ok(PyFloatVal(IF neg THEN -DigitsVal(body) ELSE DigitsVal(body)))
        ELSE Raise("ValueError")

PyFloat(v) ==
    CASE v.t \in {"int", "bool", "float"} -> Ok(PyFloatVal(v.n))
      [] v.t \in {"nan", "inf", "-inf"} -> Ok(v)
      [] v.t = "bigint" -> Raise("OverflowError")
      [] v.t = "str" -> ParseFloat(v.s)
      [] OTHER -> Raise("TypeError")

\* lo <= x <= hi on Python floats: false for nan and for the infinities
Between(lo, x, hi) == x.t = "float" /\ lo <= x.n /\ x.n <= hi

(* --------------------------- clean_b64 -------------------------------- *)
DataColon == <<"d", "a", "t", "a", ":">>
Base64Comma == <<";", "b", "a", "s", "e", "6", "4", ",">>

StartsWithAt(s, i, p) == i + Len(p) - 1 <= Len(s) /\ SubSeq(s, i, i + Len(p) - 1) = p

\* [^;]+ from position i: the index after the longest run of non-';'
RECURSIVE SkipNotSemi(_, _)
SkipNotSemi(s, i) == IF i <= Len(s) /\ s[i] # ";" THEN SkipNotSemi(s, i + 1) ELSE i

\* a variant bug: [^;]* in place of [^;]+, an empty media type matches
DATA_URI_RE_star(s) ==
    IF ~StartsWithAt(s, 1, DataColon) THEN 0
    ELSE LET j == SkipNotSemi(s, Len(DataColon) + 1)
         IN  IF StartsWithAt(s, j, Base64Comma) THEN j + Len(Base64Comma) - 1 ELSE 0

\* length of the match of ^data:[^;]+;base64, at the start of s, 0 for none
DATA_URI_RE(s) ==
    IF ~StartsWithAt(s, 1, DataColon) THEN 0
    ELSE LET j == SkipNotSemi(s, Len(DataColon) + 1)
         IN  IF j > Len(DataColon) + 1 /\ StartsWithAt(s, j, Base64Comma)
             THEN j + Len(Base64Comma) - 1
             ELSE 0

clean_b64(s) ==
    IF ~Truthy(s) THEN Ok(s)
    ELSE IF s.t # "str" THEN Raise("TypeError")
    ELSE Ok(JStr(SubSeq(s.s, DATA_URI_RE(s.s) + 1, Len(s.s))))

(* ----------------------- parse_report_payload ------------------------- *)
\* a variant bug: the candidate keys tried last to first
RECURSIVE pick_last_first(_, _, _)
pick_last_first(data, keys, default) ==
    IF keys = <<>> THEN default
    ELSE IF keys[Len(keys)] \in DOMAIN data /\ data[keys[Len(keys)]] # None
         THEN data[keys[Len(keys)]]
         ELSE pick_last_first(data, SubSeq(keys, 1, Len(keys) - 1), default)

RECURSIVE pick(_, _, _)
pick(data, keys, default) ==
    IF keys = <<>> THEN default
    ELSE IF Head(keys) \in DOMAIN data /\ data[Head(keys)] # None
         THEN data[Head(keys)]
         ELSE pick(data, Tail(keys), default)

\* datetime.isoformat(): the fraction is printed unless it is zero
isoformat(t) == IntStr(t \div 2) \o (IF t % 2 = 0 THEN <<>> ELSE <<".", "5">>)

isoformat_seconds(t) == IntStr(t \div 2)

\* the messages of lines 105-115 (the source writes "inválida" with an accent)
MsgLat == "lat/latitude invalida"
MsgLon == "lon/longitude invalida"
MsgLatRange == "lat fuera de rango (-90..90)"
MsgLonRange == "lon fuera de rango (-180..180)"

Caught == {"TypeError", "ValueError"}

NoPayload == [k \in {} |-> None]

NoNorm == [exc |-> "unset", errs |-> <<>>, payload |-> NoPayload]

\* a variant bug: validation stops at the first coordinate that fails
validate_failfast(latF, lonF) ==
    IF latF.exc \in Caught THEN <<MsgLat>>
    ELSE IF lonF.exc \in Caught THEN <<MsgLon>>
    ELSE (IF ~Between(LatMin, latF.val, LatMax) THEN <<MsgLatRange>> ELSE <<>>)
         \o (IF ~Between(LonMin, lonF.val, LonMax) THEN <<MsgLonRange>> ELSE <<>>)

\* a variant bug: no `if not errs`, each coerced coordinate is range-checked
validate_always_range(latF, lonF) ==
    (IF latF.exc \in Caught THEN <<MsgLat>> ELSE <<>>)
    \o (IF lonF.exc \in Caught THEN <<MsgLon>> ELSE <<>>)
    \o (IF latF.exc = "none" /\ ~Between(LatMin, latF.val, LatMax) THEN <<MsgLatRange>> ELSE <<>>)
    \o (IF lonF.exc = "none" /\ ~Between(LonMin, lonF.val, LonMax) THEN <<MsgLonRange>> ELSE <<>>)

\* lines 101-115: both coercions are tried; the range checks run only when
\* neither failed
validate(latF, lonF) ==
    LET errs1 == (IF latF.exc \in Caught THEN <<MsgLat>> ELSE <<>>)
                 \o (IF lonF.exc \in Caught THEN <<MsgLon>> ELSE <<>>)
    IN  IF errs1 # <<>> THEN errs1
        ELSE (IF ~Between(LatMin, latF.val, LatMax) THEN <<MsgLatRange>> ELSE <<>>)
             \o (IF ~Between(LonMin, lonF.val, LonMax) THEN <<MsgLonRange>> ELSE <<>>)

\* lines 117-122: float(accuracy), a TypeError or ValueError gives None
coerce_accuracy(acc0) ==
    LET accF == IF acc0 = None THEN Ok(None) ELSE PyFloat(acc0)
    IN  IF accF.exc \in Caught THEN Ok(None) ELSE accF

\* the first exception no except clause catches, "none" when there is none
Uncaught(rs) ==
    IF \A i \in DOMAIN rs : rs[i].exc \in Caught \cup {"none"} THEN "none"
    ELSE rs[CHOOSE i \in DOMAIN rs :
                /\ rs[i].exc \notin Caught \cup {"none"}
                /\ \A j \in 1..(i - 1) : rs[j].exc \in Caught \cup {"none"}].exc

parse_report_payload(data, t1, t2) ==
    LET lat0 == pick(data, <<"lat", "latitude">>, None)
        lon0 == pick(data, <<"lon", "longitude">>, None)
        fecha == pick(data, <<"fecha", "timestamp">>, JStr(isoformat(t1)))
        foto0 == pick(data, <<"foto_base64", "photo_base64">>, None)
        mime == pick(data, <<"mime", "photo_mime_type">>, None)
        filename == pick(data, <<"filename", "photo_filename">>, None)
        acc0 == pick(data, <<"accuracy", "accuracy_m">>, None)
        latF == PyFloat(lat0)
        lonF == PyFloat(lon0)
        accF == coerce_accuracy(acc0)
        fotoC == clean_b64(foto0)
        raised == Uncaught(<<latF, lonF, accF, [exc |-> fotoC.exc, val |-> None]>>)
    IN  IF raised # "none"
        THEN [exc |-> raised, errs |-> <<>>, payload |-> NoPayload]
        ELSE [exc |-> "none",
              errs |-> validate(latF, lonF),
              payload |-> [lat |-> IF latF.exc = "none" THEN latF.val ELSE lat0,
                           lon |-> IF lonF.exc = "none" THEN lonF.val ELSE lon0,
                           fecha |-> JStr(PyStr(fecha)),
                           foto_base64 |-> fotoC.val,
                           mime |-> mime,
                           filename |-> filename,
                           accuracy |-> accF.val,
                           created_at |-> JStr(isoformat_seconds(t2))]]

(* ------------------------- the reportes table ------------------------- *)
BaseCols == {"id", "lat", "lon", "fecha", "foto_base64"}
NewCols == {"mime", "filename", "accuracy", "created_at"}
AllCols == BaseCols \cup NewCols

Null == Val("null", 0, <<>>)
Real(n) == Val("real", n, <<>>)
Text(s) == Val("text", 0, s)
Integer(n) == Val("integer", n, <<>>)

\* column affinities of CREATE TABLE (lines 34-44)
Affinity(c) ==
    IF c = "id" THEN "INTEGER" ELSE IF c \in {"lat", "lon", "accuracy"} THEN "REAL" ELSE "TEXT"

\* sqlite3 parameter binding, then the column's affinity.  NaN is bound as
\* NULL; a list cannot be bound; an int beyond 64 bits cannot be bound.
Bind(v, aff) ==
    CASE v.t = "null" -> Ok(Null)
      [] v.t = "nan" -> Ok(Null)
      [] v.t = "list" -> Raise("ProgrammingError")
      [] v.t = "bigint" -> Raise("OverflowError")
      [] v.t = "str" /\ aff = "TEXT" -> Ok(Text(v.s))
      [] v.t \in {"int", "bool", "float"} /\ aff = "REAL" -> Ok(Real(v.n))
      [] v.t \in {"int", "bool"} /\ aff = "TEXT" -> Ok(Text(IntStr(v.n)))
      [] v.t = "float" /\ aff = "TEXT" -> Ok(Text(IntStr(v.n) \o <<".", "0">>))
      [] v.t = "inf" /\ aff = "REAL" -> Ok(Val("realinf", 1, <<>>))
      [] v.t = "-inf" /\ aff = "REAL" -> Ok(Val("realinf", -1, <<>>))
      [] v.t = "inf" /\ aff = "TEXT" -> Ok(Text(<<"I", "n", "f">>))
      [] v.t = "-inf" /\ aff = "TEXT" -> Ok(Text(<<"-", "I", "n", "f">>))

\* what sqlite3 hands back for a cell, as jsonify serialises it
Fetch(cell) ==
    CASE cell.t = "null" -> None
      [] cell.t = "real" -> PyFloatVal(cell.n)
      [] cell.t = "realinf" -> Val(IF cell.n > 0 THEN "inf" ELSE "-inf", 0, <<>>)
      [] cell.t = "text" -> JStr(cell.s)
      [] cell.t = "integer" -> JInt(cell.n)

MaxOf(S) == IF S = {} THEN 0 ELSE CHOOSE m \in S : \A x \in S : x <= m

Ids(rs) == {r["id"].n : r \in rs}

\* a variant bug: the accuracy column is never checked for
init_db_table_no_accuracy(c, rs) ==
    IF c = {} THEN [cols |-> AllCols, rows |-> {}]
    ELSE LET alters == {a \in NewCols \ {"accuracy"} : a \notin c}
         IN  [cols |-> c \cup alters,
              rows |-> {[k \in c \cup alters |-> IF k \in c THEN r[k] ELSE Null] : r \in rs}]

\* CREATE TABLE IF NOT EXISTS, then one ALTER TABLE ADD COLUMN per missing
\* column; an added column reads NULL in every existing row
init_db_table(c, rs) ==
    IF c = {} THEN [cols |-> AllCols, rows |-> {}]
    ELSE LET alters == {a \in NewCols : a \notin c}
         IN  [cols |-> c \cup alters,
              rows |-> {[k \in c \cup alters |-> IF k \in c THEN r[k] ELSE Null] : r \in rs}]

(* ------------------------- requests, responses ------------------------ *)
EmptyDict == [k \in {} |-> None]

NoInput == [ctype |-> "none", body |-> "none", data |-> EmptyDict, t1 |-> 0, t2 |-> 0]

Resp(op, status) ==
    [op |-> op, status |-> status, id |-> 0, errs |-> <<>>, body |-> <<>>, exc |-> "none"]

\* an unhandled exception: Flask answers 500
Resp500(op, e) == [Resp(op, 500) EXCEPT !.exc = e]

PayloadCols == <<"lat", "lon", "fecha", "foto_base64", "mime", "filename",
                 "accuracy", "created_at">>

\* the eight bound parameters of the INSERT (lines 175-184)
Bound(payload) == [i \in 1..Len(PayloadCols) |->
                      Bind(payload[PayloadCols[i]], Affinity(PayloadCols[i]))]

BindError(b) ==
    IF \A i \in DOMAIN b : b[i].exc = "none" THEN "none"
    ELSE b[CHOOSE i \in DOMAIN b : b[i].exc # "none" /\ \A j \in 1..(i - 1) : b[j].exc = "none"].exc

\* AUTOINCREMENT: one more than the largest rowid the table has ever held
NextRowid(rs, sq) == MaxOf(Ids(rs) \cup {sq}) + 1

NewRow(c, rid, b) ==
    [k \in c |-> IF k = "id" THEN Integer(rid)
                 ELSE b[CHOOSE i \in DOMAIN b : PayloadCols[i] = k].val]

\* request.get_json(silent=True) or {}
BodyDict(body, data) == IF body = "dict" THEN data ELSE EmptyDict

\* what the handler does with a JSON request, as a value
Handled(body, data, t1, t2) ==
    IF body = "scalar" THEN [n |-> NoNorm, r |-> Resp500("POST /reportes", "TypeError"), ins |-> FALSE]
    ELSE LET n == parse_report_payload(BodyDict(body, data), t1, t2)
         IN  IF n.exc # "none"
             THEN [n |-> n, r |-> Resp500("POST /reportes", n.exc), ins |-> FALSE]
             ELSE IF n.errs # <<>>
             THEN [n |-> n, r |-> [Resp("POST /reportes", 400) EXCEPT !.errs = n.errs],
                   ins |-> FALSE]
             ELSE IF BindError(Bound(n.payload)) # "none"
             THEN [n |-> n, r |-> Resp500("POST /reportes", BindError(Bound(n.payload))),
                   ins |-> FALSE]
             ELSE [n |-> n, r |-> Resp("POST /reportes", 201), ins |-> TRUE]

crear_reporte(ctype, body, data, t1, t2) ==
    /\ inp' = [ctype |-> ctype, body |-> body, data |-> data, t1 |-> t1, t2 |-> t2]
    /\ IF ctype # "json"
       THEN /\ resp' = Resp("POST /reportes", 415)
            /\ norm' = NoNorm
            /\ UNCHANGED <<cols, rows, seq, issued>>
       ELSE LET h == Handled(body, data, t1, t2)
                rid == NextRowid(rows, seq)
            IN  /\ norm' = h.n
                /\ IF h.ins
                   THEN /\ Cardinality(rows) < MaxRows
                        /\ rid <= MaxId
                        /\ rows' = rows \cup {NewRow(cols, rid, Bound(h.n.payload))}
                        /\ seq' = rid
                        /\ issued' = issued \cup {rid}
                        /\ resp' = [h.r EXCEPT !.id = rid]
                        /\ UNCHANGED cols
                   ELSE /\ resp' = h.r
                        /\ UNCHANGED <<cols, rows, seq, issued>>

\* a variant bug: OR in place of AND
Selected_either(rs) == {r \in rs : r["lat"] # Null \/ r["lon"] # Null}

\* WHERE lat IS NOT NULL AND lon IS NOT NULL
Selected(rs) == {r \in rs : r["lat"] # Null /\ r["lon"] # Null}

\* ORDER BY id DESC
RECURSIVE OrderByIdDesc(_)
OrderByIdDesc(rs) ==
    IF rs = {} THEN <<>>
    ELSE LET top == CHOOSE r \in rs : \A q \in rs : q["id"].n <= r["id"].n
         IN  <<top>> \o OrderByIdDesc(rs \ {top})

RowDict(r) == [k \in {"id"} \cup {PayloadCols[i] : i \in DOMAIN PayloadCols} |-> Fetch(r[k])]

RowDicts(rs) == [i \in 1..Len(rs) |-> RowDict(rs[i])]

listar_reportes ==
    /\ resp' = [Resp("GET /reportes", 200) EXCEPT !.body = RowDicts(OrderByIdDesc(Selected(rows)))]
    /\ inp' = NoInput
    /\ norm' = NoNorm
    /\ UNCHANGED <<cols, rows, seq, issued>>

\* a variant bug: the DELETE carries the listing's WHERE clause
Deleted_listed(rs) == rs \ Selected(rs)

\* DELETE FROM reportes: every row goes, sqlite_sequence stays
Deleted(rs) == {}

borrar_todos ==
    /\ rows' = Deleted(rows)
    /\ resp' = Resp("DELETE /borrar_todos", 200)
    /\ inp' = NoInput
    /\ norm' = NoNorm
    /\ UNCHANGED <<cols, seq, issued>>

health ==
    /\ resp' = Resp("GET /health", 200)
    /\ inp' = NoInput
    /\ norm' = NoNorm
    /\ UNCHANGED <<cols, rows, seq, issued>>

home ==
    /\ resp' = Resp("GET /", 200)
    /\ inp' = NoInput
    /\ norm' = NoNorm
    /\ UNCHANGED <<cols, rows, seq, issued>>

init_db ==
    /\ cols' = init_db_table(cols, rows).cols
    /\ rows' = init_db_table(cols, rows).rows
    /\ resp' = Resp("init_db", 0)
    /\ UNCHANGED <<seq, inp, norm, issued>>

(* ------------------------------ inputs -------------------------------- *)
\* clock readings of one request: utcnow() at line 95, then at line 135
Ticks == {1, 2}
ClockReads == {p \in Ticks \X Ticks : p[1] <= p[2]}
\* the service runs are given one pair of readings, half a second apart
SvcClock == {<<1, 2>>}

Chr(c) == JStr(<<c>>)

\* a logical field under its legacy key, its current key, or both
Slots(legacy, current, vs, ws) ==
    {EmptyDict}
    \cup {legacy :> v : v \in vs}
    \cup {current :> v : v \in vs}
    \cup {(legacy :> a) @@ (current :> b) : a \in ws \cup {None}, b \in ws}

CoordVals(lo, hi) ==
    {JInt(lo - 1), JInt(lo), JInt(hi), JInt(hi + 1), JStr(IntStr(hi + 1)),
     JStr(<<" ">> \o IntStr(lo) \o <<" ">>), Chr("x"), JStr(<<"-">>), None, JNaN, JInf,
     JBig, JBool(TRUE), JList(0)}

LatSlots == Slots("lat", "latitude", CoordVals(LatMin, LatMax), {JInt(10), JInt(91), Chr("x")})
LonSlots == Slots("lon", "longitude", CoordVals(LonMin, LonMax), {JInt(-74), JInt(181), Chr("x")})

AccVals == {JInt(12), JStr(<<"1", "2">>), Chr("x"), JBig, JList(1), JBool(FALSE), JNaN}
AccSlots == Slots("accuracy", "accuracy_m", AccVals, {JInt(12), Chr("x")})

RECURSIVE SeqsUpTo(_, _)
SeqsUpTo(S, n) ==
    IF n = 0 THEN {<<>>}
    ELSE LET shorter == SeqsUpTo(S, n - 1)
         IN  shorter \cup {Append(q, c) : q \in shorter, c \in S}

MediaTypes == SeqsUpTo({"a", ";"}, MaxMedia)
UriQ == DataColon \o <<"a">> \o Base64Comma \o <<"Q">>
PhotoTexts ==
    {p \o m \o b \o r :
        p \in {<<>>, DataColon, <<"x">> \o DataColon, <<"d", "a", "t", "a">>},
        m \in MediaTypes,
        b \in {<<>>, Base64Comma, <<";">>},
        r \in {<<>>, <<"Q">>, UriQ}}
\* "data:image/png;base64,QUJD" of the handler's docstring format
ImagePng == <<"i", "m", "a", "g", "e", "/", "p", "n", "g">>
QUJD == <<"Q", "U", "J", "D">>
PhotoVals == {JStr(t) : t \in PhotoTexts \cup {DataColon \o ImagePng \o Base64Comma \o QUJD}}
             \cup {JInt(7), JInt(0), JList(0), JList(1), JBool(FALSE)}
PhotoSlots == Slots("foto_base64", "photo_base64", PhotoVals, {JStr(UriQ), Chr("Q")})

TextVals == {Chr("m"), JStr(<<>>), JInt(5), JBool(TRUE), JList(0)}
FechaSlots == Slots("fecha", "timestamp", TextVals, {Chr("m"), Chr("n")})
MimeSlots == Slots("mime", "photo_mime_type", TextVals, {Chr("m"), Chr("n")})
FilenameSlots == Slots("filename", "photo_filename", TextVals, {Chr("m"), Chr("n")})

GoodCoords == ("lat" :> JInt(10)) @@ ("longitude" :> JInt(-74))

NormPayloads ==
    {la @@ lo @@ x : la \in LatSlots, lo \in LonSlots,
                     x \in {EmptyDict, "foto_base64" :> JInt(7), "accuracy" :> JBig,
                            "accuracy_m" :> Chr("x")}}
    \cup {GoodCoords @@ ph @@ ac : ph \in PhotoSlots, ac \in AccSlots}
    \cup {GoodCoords @@ fe @@ mi @@ fi : fe \in FechaSlots, mi \in MimeSlots, fi \in FilenameSlots}

Fecha2025 == "fecha" :> JStr(<<"2", "0", "2", "5">>)

SvcLat == {"lat" :> JInt(LatMax), "lat" :> JInt(LatMax + 1), "lat" :> Chr("x")}
SvcLon == {"longitude" :> JInt(LonMin), "longitude" :> JInt(LonMin - 1), EmptyDict}
SvcAux == {EmptyDict, "accuracy" :> JInt(12), "accuracy" :> Chr("x"), "accuracy" :> JBig,
           "foto_base64" :> JStr(UriQ), "foto_base64" :> JInt(7)}

ServicePayloads ==
    {Fecha2025 @@ la @@ lo : la \in SvcLat, lo \in SvcLon}
    \cup {Fecha2025 @@ ("lat" :> JInt(LatMax)) @@ ("longitude" :> JInt(LonMin)) @@ x : x \in SvcAux}
    \cup {Fecha2025 @@ ("lat" :> JInt(LatMax + 1)) @@ ("longitude" :> JInt(LonMin)) @@ x :
             x \in {"accuracy" :> JBig, "foto_base64" :> JInt(7)}}

\* a table an earlier run left in DB_FILE: the five first columns, any of the
\* four later ones, rows with or without coordinates
LegacyCell(c, i) ==
    IF c = "id" THEN Integer(i)
    ELSE IF Affinity(c) = "REAL" THEN Real(i) ELSE Text(<<"o", "l", "d">>)

LegacyRows(c, ids) ==
    {[k \in c |-> IF k = "lat" THEN la ELSE IF k = "lon" THEN lo ELSE LegacyCell(k, i)] :
        i \in ids, la \in {Null, Real(10)}, lo \in {Null, Real(-74)}}

DistinctIds(rs) == \A r \in rs, q \in rs : r["id"] = q["id"] => r = q

LegacyTables(colsets, ids) ==
    UNION {{[cols |-> c, rows |-> rs] :
               rs \in {x \in SUBSET LegacyRows(c, ids) : DistinctIds(x)}} : c \in colsets}
    \cup {[cols |-> {}, rows |-> {}]}

(* --------------------------- specifications --------------------------- *)
\* the service, once init_db() has run at import (line 67)
Init ==
    \E t \in LegacyTables({BaseCols}, 1..MaxLegacy) :
        /\ cols = init_db_table(t.cols, t.rows).cols
        /\ rows = init_db_table(t.cols, t.rows).rows
        /\ seq = MaxOf(Ids(t.rows))
        /\ inp = NoInput
        /\ norm = NoNorm
        /\ resp = Resp("none", 0)
        /\ issued = {}

Next ==
    \/ \E d \in ServicePayloads, t \in SvcClock : crear_reporte("json", "dict", d, t[1], t[2])
    \/ \E b \in {"falsy", "scalar"}, t \in SvcClock :
           crear_reporte("json", b, EmptyDict, t[1], t[2])
    \/ crear_reporte("text/plain", "dict", EmptyDict, 0, 0)
    \/ listar_reportes
    \/ borrar_todos
    \/ health
    \/ home

Spec == Init /\ [][Next]_vars

\* DB_FILE as a process finds it, before init_db() runs
InitBoot ==
    \E t \in LegacyTables({BaseCols \cup s : s \in SUBSET NewCols}, 1..MaxRows) :
        /\ cols = t.cols
        /\ rows = t.rows
        /\ seq = MaxOf(Ids(t.rows))
        /\ inp = NoInput
        /\ norm = NoNorm
        /\ resp = Resp("none", 0)
        /\ issued = {}

NextBoot == init_db

SpecBoot == InitBoot /\ [][NextBoot]_vars

\* the normalizer alone, on one decoded body
InitNorm ==
    \E d \in NormPayloads, t \in ClockReads :
        /\ inp = [ctype |-> "json", body |-> "dict", data |-> d, t1 |-> t[1], t2 |-> t[2]]
        /\ norm = NoNorm
        /\ cols = AllCols
        /\ rows = {}
        /\ seq = 0
        /\ resp = Resp("none", 0)
        /\ issued = {}

Normalize ==
    /\ norm = NoNorm
    /\ norm' = parse_report_payload(inp.data, inp.t1, inp.t2)
    /\ UNCHANGED <<cols, rows, seq, inp, resp, issued>>

NextNorm == Normalize

SpecNorm == InitNorm /\ [][NextNorm]_vars

(* ------------------------------ claims -------------------------------- *)
\* the value the field resolution policy names: the legacy key's unless it is
\* missing or null, then the current key's, then nothing
Resolve(d, legacy, current) ==
    IF legacy \in DOMAIN d /\ d[legacy] # None THEN d[legacy]
    ELSE IF current \in DOMAIN d /\ d[current] # None THEN d[current]
    ELSE None

Body(i) == IF i.body = "dict" THEN i.data ELSE EmptyDict

LatOf(i) == PyFloat(Resolve(Body(i), "lat", "latitude"))
LonOf(i) == PyFloat(Resolve(Body(i), "lon", "longitude"))
AccOf(i) == Resolve(Body(i), "accuracy", "accuracy_m")
PhotoOf(i) == Resolve(Body(i), "foto_base64", "photo_base64")

Parses(f) == f.exc = "none"
Unparseable(f) == f.exc \in Caught
OutOfRange(f, lo, hi) == Parses(f) /\ ~(f.val.t = "float" /\ f.val.n >= lo /\ f.val.n <= hi)
InRange(f, lo, hi) == Parses(f) /\ f.val.t = "float" /\ f.val.n >= lo /\ f.val.n <= hi

IsJsonPost(i, r) == r.op = "POST /reportes" /\ i.ctype = "json" /\ i.body \in {"dict", "falsy"}

Count(q, m) == Cardinality({k \in DOMAIN q : q[k] = m})

Mentions(q, m) == \E k \in DOMAIN q : q[k] = m

\* C1: every POST /reportes with lat in [-90,90] and lon in [-180,180] returns
\* 201 with an id strictly greater than every id issued by an earlier POST,
\* a DELETE /borrar_todos in between or not.
C1_ValidPostGetsFreshId ==
    [][(IsJsonPost(inp', resp') /\ InRange(LatOf(inp'), LatMin, LatMax)
            /\ InRange(LonOf(inp'), LonMin, LonMax))
        => (resp'.status = 201 /\ \A i \in issued : resp'.id > i)]_vars

\* Beside C1: whenever a POST does return 201, its id is greater than every
\* id issued before and than every rowid in the table.
IdsStrictlyIncrease ==
    [][(resp'.op = "POST /reportes" /\ resp'.status = 201)
        => (\A i \in issued \cup Ids(rows) : resp'.id > i)]_vars

\* C2: every POST /reportes whose lat or lon parses as a number but lies
\* outside its range is answered 400, with exactly one range message per
\* out-of-range field, and leaves the stored rows as they were.  Stated here on
\* the requests whose two coordinates both parse, where C4 leaves the range
\* checks in force.
C2_OutOfRangeRejected ==
    [][(IsJsonPost(inp', resp') /\ Parses(LatOf(inp')) /\ Parses(LonOf(inp'))
            /\ (OutOfRange(LatOf(inp'), LatMin, LatMax) \/ OutOfRange(LonOf(inp'), LonMin, LonMax)))
        => /\ resp'.status = 400
           /\ Count(resp'.errs, MsgLatRange)
                = (IF OutOfRange(LatOf(inp'), LatMin, LatMax) THEN 1 ELSE 0)
           /\ Count(resp'.errs, MsgLonRange)
                = (IF OutOfRange(LonOf(inp'), LonMin, LonMax) THEN 1 ELSE 0)
           /\ rows' = rows]_vars

\* C3 as claimed: a 400 response lists a message for every applicable problem,
\* so each coordinate that is invalid on its own contributes its message.
C3_EveryProblemListed ==
    (norm.exc = "none" /\ norm.errs # <<>>)
    => /\ Unparseable(LatOf(inp)) => Mentions(norm.errs, MsgLat)
       /\ Unparseable(LonOf(inp)) => Mentions(norm.errs, MsgLon)
       /\ OutOfRange(LatOf(inp), LatMin, LatMax) => Mentions(norm.errs, MsgLatRange)
       /\ OutOfRange(LonOf(inp), LonMin, LonMax) => Mentions(norm.errs, MsgLonRange)

\* C3 as amended: the error list holds the coercion message of every
\* coordinate that is missing or unparseable, both when both are; it holds the
\* range message of every out-of-range coordinate only when both coordinates
\* parse; no message twice.
C3_ProblemsListedTogether ==
    norm.exc = "none"
    => LET bothParse == Parses(LatOf(inp)) /\ Parses(LonOf(inp))
       IN  /\ Mentions(norm.errs, MsgLat) <=> Unparseable(LatOf(inp))
           /\ Mentions(norm.errs, MsgLon) <=> Unparseable(LonOf(inp))
           /\ Mentions(norm.errs, MsgLatRange)
                <=> (bothParse /\ OutOfRange(LatOf(inp), LatMin, LatMax))
           /\ Mentions(norm.errs, MsgLonRange)
                <=> (bothParse /\ OutOfRange(LonOf(inp), LonMin, LonMax))
           /\ \A m \in {MsgLat, MsgLon, MsgLatRange, MsgLonRange} : Count(norm.errs, m) <= 1
           /\ \A k \in DOMAIN norm.errs :
                norm.errs[k] \in {MsgLat, MsgLon, MsgLatRange, MsgLonRange}

C3_Witness ==
    /\ norm.exc = "none"
    /\ norm.errs = <<MsgLat, MsgLon>>

\* C4: when either coercion fails, the error list holds coercion messages
\* only, whatever the other coordinate is.
C4_NoRangeAfterCoercionFailure ==
    (norm.exc = "none" /\ (Unparseable(LatOf(inp)) \/ Unparseable(LonOf(inp))))
    => /\ norm.errs # <<>>
       /\ \A k \in DOMAIN norm.errs : norm.errs[k] \in {MsgLat, MsgLon}

C4_Witness ==
    /\ norm.errs = <<MsgLat>>
    /\ OutOfRange(LonOf(inp), LonMin, LonMax)

\* C5: GET /reportes returns exactly the stored rows whose lat and lon are both
\* non-null, each once, in strictly descending id order.
C5_ListingExact ==
    resp.op = "GET /reportes"
    => LET b == resp.body
           Same(r, o) == \A k \in DOMAIN o : o[k] = Fetch(r[k])
       IN  /\ resp.status = 200
           /\ \A r \in rows : (r["lat"] # Null /\ r["lon"] # Null)
                => \E k \in DOMAIN b : Same(r, b[k])
           /\ \A k \in DOMAIN b : /\ DOMAIN b[k] = AllCols
                                  /\ b[k]["lat"] # None
                                  /\ b[k]["lon"] # None
                                  /\ \E r \in rows : Same(r, b[k])
           /\ \A j \in DOMAIN b, k \in DOMAIN b : j < k => b[j]["id"].n > b[k]["id"].n

C5_Witness ==
    /\ resp.op = "GET /reportes"
    /\ Len(resp.body) = 2
    /\ \E r \in rows : r["lat"] = Null \/ r["lon"] = Null

\* C6: DELETE /borrar_todos answers 200 and leaves no row at all, and a GET
\* /reportes that follows it returns the empty array.
C6_DeleteThenEmptyList ==
    [][/\ resp'.op = "DELETE /borrar_todos" => (resp'.status = 200 /\ rows' = {})
       /\ (resp.op = "DELETE /borrar_todos" /\ resp'.op = "GET /reportes")
            => resp'.body = <<>>]_vars

C6_Witness ==
    /\ resp.op = "GET /reportes"
    /\ resp.body = <<>>
    /\ rows = {}
    /\ issued # {}

\* the payload that carries, under the legacy keys alone, the values the
\* resolution policy picks from d
UnderLegacyKeys(d) ==
    LET pairs == {<<"lat", "latitude">>, <<"lon", "longitude">>, <<"fecha", "timestamp">>,
                  <<"foto_base64", "photo_base64">>, <<"mime", "photo_mime_type">>,
                  <<"filename", "photo_filename">>, <<"accuracy", "accuracy_m">>}
        won == {p \in pairs : Resolve(d, p[1], p[2]) # None}
    IN  [k \in {p[1] : p \in won} |->
            Resolve(d, k, (CHOOSE p \in won : p[1] = k)[2])]

\* C7: each field takes the legacy key's value when present and non-null,
\* else the current key's, else nothing (fecha: the clock); so a payload
\* normalizes as the same values under the legacy keys do.
C7_LegacyThenCurrent ==
    norm # NoNorm
    => /\ norm = parse_report_payload(UnderLegacyKeys(inp.data), inp.t1, inp.t2)
       /\ norm.exc = "none"
            => LET d == inp.data
                   p == norm.payload
                   fe == Resolve(d, "fecha", "timestamp")
               IN  /\ p.mime = Resolve(d, "mime", "photo_mime_type")
                   /\ p.filename = Resolve(d, "filename", "photo_filename")
                   /\ p.fecha = JStr(PyStr(IF fe = None THEN JStr(isoformat(inp.t1)) ELSE fe))
                   /\ p.lat = (IF Parses(LatOf(inp)) THEN LatOf(inp).val
                               ELSE Resolve(d, "lat", "latitude"))
                   /\ p.lon = (IF Parses(LonOf(inp)) THEN LonOf(inp).val
                               ELSE Resolve(d, "lon", "longitude"))
                   /\ p.accuracy = coerce_accuracy(AccOf(inp)).val
                   /\ p.foto_base64 = clean_b64(PhotoOf(inp)).val

C7_Witness ==
    /\ norm.exc = "none"
    /\ "mime" \in DOMAIN inp.data
    /\ inp.data["mime"] = None
    /\ "photo_mime_type" \in DOMAIN inp.data
    /\ norm.payload.mime = Chr("m")

C9_AccuracyNeverRejects ==
    [][(IsJsonPost(inp', resp') /\ InRange(LatOf(inp'), LatMin, LatMax)
            /\ InRange(LonOf(inp'), LonMin, LonMax) /\ PhotoOf(inp').t \in {"str", "null"})
        => /\ resp'.status = 201
           /\ ~Parses(PyFloat(AccOf(inp')))
                => \E r \in rows' : r["id"].n = resp'.id /\ r["accuracy"] = Null]_vars

\* the lengths n such that the first n characters of s read
\* data:<media-type>;base64, with a media type of one or more non-';'
UriPrefixes(s) ==
    {n \in 1..Len(s) :
        \E k \in 1..Len(s) :
            /\ n = Len(DataColon) + k + Len(Base64Comma)
            /\ SubSeq(s, 1, Len(DataColon)) = DataColon
            /\ \A j \in (Len(DataColon) + 1)..(Len(DataColon) + k) : s[j] # ";"
            /\ SubSeq(s, Len(DataColon) + k + 1, n) = Base64Comma}

\* C10: clean_b64 removes exactly one leading data:<media-type>;base64, and
\* returns the rest unchanged; a text without such a prefix, the empty text
\* and null come back unchanged.
C10_StripsOnePrefix ==
    (norm.exc = "none" /\ PhotoOf(inp).t \in {"str", "null"})
    => LET p == PhotoOf(inp)
           out == norm.payload.foto_base64
       IN  IF p.t = "str" /\ UriPrefixes(p.s) # {}
           THEN \A n \in UriPrefixes(p.s) : out = JStr(SubSeq(p.s, n + 1, Len(p.s)))
           ELSE out = p

C10_Witness ==
    /\ norm.exc = "none"
    /\ PhotoOf(inp) = JStr(DataColon \o ImagePng \o Base64Comma \o QUJD)
    /\ norm.payload.foto_base64 = JStr(QUJD)

====
